---- MODULE Spec2Model ----
(***************************************************************************)
(* Model of the rocket trajectory viewer (rocket/viz): the playback        *)
(* controller of main.js (src/unnamed/part_002), the loaders of parsers.js *)
(* (src/unnamed/part_003) and the renderers of threeview.js and plots.js,  *)
(* as one state machine whose actions are the page's event handlers and    *)
(* the animation-frame callback.  JavaScript runs each handler to          *)
(* completion, so an action is one whole handler run; a handler that       *)
(* throws keeps the assignments it made before the throw.                  *)
(***************************************************************************)
EXTENDS Integers, Sequences, FiniteSets, TLC

\* ---------------------------------------------------------------- bounds
\* Largest number of data rows of an input file.
MaxN == 3
\* Width of a plot container in (abstract) pixels; a click lands on 0..PlotW.
PlotW == 4
\* Largest number of file loads awaiting I/O at the same time.
MaxInflight == 1
\* Largest number of entries handleSnapshots may push onto cursorIndices.
MaxSnaps == 2
\* How far below index 0 the model follows the slider value.
MaxBelow == 1
\* Largest number of errors the environment raises in one behaviour of SpecFault.
MaxFaults == 1

\* ------------------------------------------------------------ small helpers
Min(a, b) == IF a <= b THEN a ELSE b
Max(a, b) == IF a >= b THEN a ELSE b

\* Math.round(num/den) for den > 0: halves go toward +Infinity.
RoundHalfUp(num, den) == (2 * num + den) \div (2 * den)

\* Array.prototype.includes on a sequence.
IncludesNever(s, x) == FALSE
Includes(s, x) == \E k \in 1..Len(s) : s[k] = x

\* --------------------------------------------------------------- input files
\* Column groups of the input schema (README / loadParquet's getCol names).
RequiredCols == {"t", "pos", "vel", "quat"}
OptionalCols == {"omega", "fuel"}
AllCols == RequiredCols \cup OptionalCols

\* The files the user can pick.  Each has an extension, the format its
\* bytes are in, a number of data rows, the columns present and a content
\* tag; two tags, so that a view showing a sample of the previous
\* trajectory differs from one showing the installed trajectory.
\*   a complete delimited-text file;
\*   a columnar file, one row shorter, without the quaternion columns and
\*     the optional columns, whose name ends in neither .csv nor .parquet;
\*   a delimited-text file of one row without the time column;
\*   a file that is not in the format its extension announces.
FileSet ==
    { [ext |-> "csv", content |-> "csv", rows |-> MaxN, cols |-> AllCols, tag |-> "A"],
      [ext |-> "txt", content |-> "parquet", rows |-> MaxN - 1,
       cols |-> RequiredCols \ {"quat"}, tag |-> "B"],
      [ext |-> "csv", content |-> "csv", rows |-> 1, cols |-> AllCols \ {"t"},
       tag |-> "A"],
      [ext |-> "parquet", content |-> "garbage", rows |-> 0, cols |-> AllCols,
       tag |-> "A"] }

NoData == [N |-> -1]

\* loadParquet: a column that is absent reads as [], so N is the length of
\* the t column and every other absent component is undefined; fuel alone is
\* defaulted to NaN.  A file that is not parquet makes readParquet throw.
loadParquet(f) ==
    IF f.content # "parquet" THEN [ok |-> FALSE, rec |-> NoData]
    ELSE [ok |-> TRUE,
          rec |-> [N     |-> IF "t" \in f.cols THEN f.rows ELSE 0,
                   tag   |-> f.tag,
                   t     |-> "num",
                   pos   |-> IF "pos" \in f.cols THEN "num" ELSE "undef",
                   vel   |-> IF "vel" \in f.cols THEN "num" ELSE "undef",
                   quat  |-> IF "quat" \in f.cols THEN "num" ELSE "undef",
                   omega |-> IF "omega" \in f.cols THEN "num" ELSE "undef",
                   fuel  |-> IF "fuel" \in f.cols THEN "num" ELSE "nan"]]

\* loadCSV: one sample per data row whatever the header holds; a column that
\* the header lacks reads as undefined in every row; fuel alone is filled
\* with NaN.  It never throws.
loadCSV(f) ==
    [ok |-> TRUE,
     rec |-> [N     |-> f.rows,
              tag   |-> f.tag,
              t     |-> IF "t" \in f.cols THEN "num" ELSE "undef",
              pos   |-> IF "pos" \in f.cols THEN "num" ELSE "undef",
              vel   |-> IF "vel" \in f.cols THEN "num" ELSE "undef",
              quat  |-> IF "quat" \in f.cols THEN "num" ELSE "undef",
              omega |-> IF "omega" \in f.cols THEN "num" ELSE "undef",
              fuel  |-> IF "fuel" \in f.cols THEN "num" ELSE "nan"]]

\* The records the loaders can hand to setData.
Parsed == { loadParquet(f).rec : f \in {g \in FileSet : g.content = "parquet"} }
            \cup { loadCSV(f).rec : f \in {g \in FileSet : g.content = "csv"} }

\* data.t[i] is a number: i is an index of the record and the time column
\* was read.  Otherwise data.t[i] is undefined and t.toFixed(2) throws.
HasTime(d, i) == d # NoData /\ i \in 0..(d.N - 1) /\ d.t = "num"

\* The sample of record d at index i, as the renderers receive it.
Sample(d, i) == [tag |-> d.tag, i |-> i]
NoSample == [tag |-> "none", i |-> -1]

\* ------------------------------------------------- the loaders, cell by cell
\* A value of the record: a number, NaN or undefined.
Num(n) == [k |-> "num", v |-> n]
NaNVal == [k |-> "nan", v |-> 0]
Undef == [k |-> "undef", v |-> 0]

\* The number a source holds for channel c in row i (never 0, all distinct).
\* One column per channel: the components of a channel are read alike.
ChanNo(c) ==
    CASE c = "t" -> 1 [] c = "pos" -> 2 [] c = "vel" -> 3
      [] c = "quat" -> 4 [] c = "omega" -> 5 [] c = "fuel" -> 6
CellVal(c, i) == 10 * ChanNo(c) + i

\* Texts a cell of a delimited-text file can hold: a numeral, nothing,
\* blanks, a word; "none" is a cell its row is too short to have.
CellKinds == {"num", "empty", "space", "word", "none"}

\* Column sets of the sources.
HeaderSet ==
    { AllCols, RequiredCols, AllCols \ {"t"}, AllCols \ {"quat"},
      RequiredCols \cup {"omega"}, {"t", "fuel"} }

\* The sources handed to a loader: n rows of the columns cols, every cell
\* the numeral CellVal(c, i) except, in delimited text, the one cell probe,
\* which holds a text of kind probe.kind.  The columns of a columnar table
\* have one length and hold numbers.
SrcSet ==
    { [format |-> "parquet", cols |-> h, n |-> n,
       probe |-> [c |-> "t", i |-> 1, kind |-> "num"]] :
          h \in HeaderSet, n \in 0..MaxN }
    \cup
    { [format |-> "csv", cols |-> h, n |-> pr[2], probe |-> pr[1]] :
          h \in HeaderSet,
          pr \in { q \in [c : AllCols, i : 1..MaxN, kind : CellKinds] \X (1..MaxN) :
                      q[1].i <= q[2] } }

\* The cell of source src in column c, row i (c a column of src, i <= src.n).
Cell(src, c, i) ==
    IF src.probe.c = c /\ src.probe.i = i
    THEN [kind |-> src.probe.kind, v |-> CellVal(c, i)]
    ELSE [kind |-> "num", v |-> CellVal(c, i)]

\* Number(text) of a cell: '' and blanks convert to 0, a word to NaN; a
\* cell the row does not have is undefined and stays so.
Number(cell) ==
    CASE cell.kind = "num" -> Num(cell.v)
      [] cell.kind \in {"empty", "space"} -> Num(0)
      [] cell.kind = "word" -> NaNVal
      [] cell.kind = "none" -> Undef

\* What the loaders store in fuel where the source has no fuel value.
MissingFuelZero == Num(0)
MissingFuel == NaNVal

\* loadCSV on source src: one sample per data row; r[idx[name]] is
\* undefined for a name the header lacks; fuel is new Array(N).fill(NaN)
\* when the header has no fuel.  Nothing is logged and nothing is thrown.
loadCSVCells(src) ==
    LET N == src.n
        take(c) == [i \in 1..N |->
                       IF c \in src.cols THEN Number(Cell(src, c, i)) ELSE Undef]
    IN  [ok |-> TRUE, log |-> <<>>,
         rec |-> [t |-> take("t"), pos |-> take("pos"), vel |-> take("vel"),
                  quat |-> take("quat"), omega |-> take("omega"),
                  fuel |-> IF "fuel" \in src.cols THEN take("fuel")
                           ELSE [i \in 1..N |-> MissingFuel]]]

\* loadParquet on table src: getCol is [] for an absent column, N is the
\* length of t, x[i] past the end of x is undefined, fuelCol[i] ?? NaN.
\* Nothing is logged.
loadParquetCols(src) ==
    LET len(c) == IF c \in src.cols THEN src.n ELSE 0
        N == len("t")
        at(c) == [i \in 1..N |->
                     IF i <= len(c) THEN Num(Cell(src, c, i).v) ELSE Undef]
    IN  [ok |-> TRUE, log |-> <<>>,
         rec |-> [t |-> at("t"), pos |-> at("pos"), vel |-> at("vel"),
                  quat |-> at("quat"), omega |-> at("omega"),
                  fuel |-> [i \in 1..N |->
                               IF i <= len("fuel") THEN Num(Cell(src, "fuel", i).v)
                               ELSE MissingFuel]]]

NoArg == [format |-> "none"]
NoResult == [ok |-> FALSE]

\* ------------------------------------------------------------ attitude math
\* Quaternion components are multiples of 1/2 from -QMax/2 to QMax/2, held
\* as the integer number of halves; derived terms are fractions num/den.
QMax == 2
QuatSet == [w : -QMax..QMax, x : -QMax..QMax, y : -QMax..QMax, z : -QMax..QMax]

Abs(n) == IF n < 0 THEN -n ELSE n
\* Math.sign
Sign(n) == IF n > 0 THEN 1 ELSE IF n < 0 THEN -1 ELSE 0

\* Math.asin(num/den): NaN outside [-1, 1], else the arcsine of the fraction.
Asin(num, den) ==
    IF Abs(num) > den THEN [k |-> "nan", sgn |-> 0, num |-> 0, den |-> 1]
    ELSE [k |-> "asin", sgn |-> Sign(num), num |-> num, den |-> den]

\* Math.sign(s) * (Math.PI / 2)
HalfPi(sgn) == [k |-> "halfpi", sgn |-> sgn, num |-> 0, den |-> 1]

\* quatToEuler's pitch from sinp = num/den.
PitchUnguarded(num, den) == Asin(num, den)
PitchOf(num, den) ==
    IF Abs(num) >= den THEN HalfPi(Sign(num)) ELSE Asin(num, den)

\* quatToEuler(q) for q = [w, x, y, z] in halves: 2 * (a*b + c*d) of the
\* components is (a*b + c*d)/2 of the halves, 1 - 2 * (a*a + b*b) is
\* (2 - (a*a + b*b))/2.  atan2 is kept as its two arguments.
quatToEuler(q) ==
    [roll  |-> [sin |-> q.w * q.x + q.y * q.z, cos |-> 2 - (q.x * q.x + q.y * q.y)],
     pitch |-> PitchOf(q.w * q.y - q.z * q.x, 2),
     yaw   |-> [sin |-> q.w * q.z + q.x * q.y, cos |-> 2 - (q.y * q.y + q.z * q.z)]]

\* --------------------------------------------------------------- instrument
\* THREE.Quaternion.normalize: a quaternion of length 0 becomes the
\* identity; otherwise the components are divided by the length, which the
\* model leaves to the users of the quaternion (they divide by n2).
NormQ(q) ==
    IF q.w = 0 /\ q.x = 0 /\ q.y = 0 /\ q.z = 0
    THEN [w |-> 1, x |-> 0, y |-> 0, z |-> 0]
    ELSE q

\* updateNavball's forwardWorld: the local vector (0, 0, 1) turned by the
\* normalized quaternion; the components are x/n2, y/n2, z/n2.
ForwardWorld(q) ==
    LET u == NormQ(q)
    IN  [x  |-> 2 * (u.x * u.z + u.w * u.y),
         y  |-> 2 * (u.y * u.z - u.w * u.x),
         z  |-> u.w * u.w - u.x * u.x - u.y * u.y + u.z * u.z,
         n2 |-> u.w * u.w + u.x * u.x + u.y * u.y + u.z * u.z]

\* updateNavball's heading text: 'HDG ---' unless the length of
\* (forwardWorld.x, forwardWorld.z) exceeds 1e-2, and then the angle
\* atan2(forwardWorld.x, forwardWorld.z), kept as its two arguments.
Heading(q) ==
    LET f == ForwardWorld(q)
    IN  IF 10000 * (f.x * f.x + f.z * f.z) > f.n2 * f.n2
        THEN [k |-> "num", sin |-> f.x, cos |-> f.z]
        ELSE [k |-> "none", sin |-> 0, cos |-> 0]

\* updateNavball's hdg and its rounding, from the angle Math.atan2 returned:
\* a is that angle in steps of 1/HdgRes degree, from -180 to 180 degrees.
\* hdg = (angle + 360) % 360 and the text shows Math.round(hdg).
HdgRes == 4
AngleSet == (-180 * HdgRes)..(180 * HdgRes)
HdgOf(a) == (a + 360 * HdgRes) % (360 * HdgRes)
HdgShown(a) == RoundHalfUp(HdgOf(a), HdgRes)

\* Velocity components are whole multiples of 1e-6 m/s, from -VMax to VMax,
\* so that the test speed > 1e-6 reads x*x + y*y + z*z > 1; k tells a
\* velocity with a NaN (or undefined) component or an infinite one apart.
VMax == 1
VelSet ==
    [k : {"num"}, x : -VMax..VMax, y : -VMax..VMax, z : -VMax..VMax]
        \cup {[k |-> kk, x |-> 0, y |-> 0, z |-> 0] : kk \in {"nan", "inf"}}

\* Number.isFinite(speed) && speed > 1e-6, speed being v.length().
SpeedOk(v) == v.k = "num" /\ v.x * v.x + v.y * v.y + v.z * v.z > 1

\* Quaternion.invert of a normalized quaternion: the conjugate.
Invert(q) == [w |-> q.w, x |-> -q.x, y |-> -q.y, z |-> -q.z]

\* Vector3.negate
NegateNot(v) == v
Negate(v) == [v EXCEPT !.x = -v.x, !.y = -v.y, !.z = -v.z]

\* Vector3.applyQuaternion: v turned by q.  q stands for its normalized
\* value, so the components are those below divided by the squared length
\* of q, a positive number that leaves their signs alone.
ApplyQuaternion(v, q) ==
    [x |-> (q.w * q.w + q.x * q.x - q.y * q.y - q.z * q.z) * v.x
             + 2 * (q.x * q.y - q.w * q.z) * v.y
             + 2 * (q.x * q.z + q.w * q.y) * v.z,
     y |-> 2 * (q.x * q.y + q.w * q.z) * v.x
             + (q.w * q.w - q.x * q.x + q.y * q.y - q.z * q.z) * v.y
             + 2 * (q.y * q.z - q.w * q.x) * v.z,
     z |-> 2 * (q.x * q.z - q.w * q.y) * v.x
             + 2 * (q.y * q.z + q.w * q.x) * v.y
             + (q.w * q.w - q.x * q.x - q.y * q.y + q.z * q.z) * v.z]

\* A marker sprite as setupNavball creates it: at the origin, visible.
NewMarker == [visible |-> TRUE, pos |-> [x |-> 0, y |-> 0, z |-> 0]]

\* updateNavball's marker branch.  Directions are held as the display
\* vector times speed and the squared length of the quaternion (both
\* positive); the marker sits at the direction times NAVBALL_RADIUS * 1.01.
Markers(v, q) ==
    IF SpeedOk(v)
    THEN LET navballQ          == Invert(NormQ(q))
             progradeWorld     == [x |-> v.x, y |-> v.y, z |-> v.z]
             progradeDisplay   == ApplyQuaternion(progradeWorld, navballQ)
             retrogradeDisplay == ApplyQuaternion(Negate(progradeWorld), navballQ)
         IN  [prograde   |-> [visible |-> progradeDisplay.z > 0, pos |-> progradeDisplay],
              retrograde |-> [visible |-> retrogradeDisplay.z > 0, pos |-> retrogradeDisplay]]
    ELSE [prograde   |-> [NewMarker EXCEPT !.visible = FALSE],
          retrograde |-> [NewMarker EXCEPT !.visible = FALSE]]

\* ------------------------------------------------------------- plot scale
\* drawLines' margin.l and margin.r, and the container widths W considered.
MarginL == 36
MarginR == 12
WidthSet == {120, 600}
MaxPlotN == 10

\* drawLines' x(i) = margin.l + (i / (t.length - 1)) * iw for a plot of N
\* samples in a container W wide, as the fraction num/den; 0 / 0 is NaN.
XScale(i, N, W) ==
    LET iw == W - MarginL - MarginR
    IN  IF N = 1 /\ i = 0
        THEN [k |-> "nan", num |-> 0, den |-> 1]
        ELSE [k |-> "num", num |-> MarginL * (N - 1) + i * iw, den |-> N - 1]

\* handlePlotClick's index for a click xn/xd pixels right of the left edge
\* of a container w wide, the trajectory having N samples.
ClickIdx(xn, xd, w, N) == Max(0, Min(N - 1, RoundHalfUp(xn * (N - 1), xd * w)))

\* Values the speed selector can supply (a signed sample step).
SpeedSet == {-1, 0, 1, 2}

\* Places where the WebGL layer can raise an error: creating the renderer in
\* setupThree, the render() calls of updateThreePose and updateNavball, and
\* the off-screen render of addSnapshot.
FaultSet == {"setup", "three", "navball", "snap"}

\* ------------------------------------------------------------------- state
VARIABLES
    data,            \* let data: the installed record, or NoData (null)
    playing,         \* let playing
    rafId,           \* let rafId: 0 is null
    rafQueue,        \* the browser's pending animation-frame callbacks (all are tick)
    three,           \* let three: TRUE once setupThree has returned a context
    navball,         \* let navball: TRUE once setupNavball has returned a context
    cursorIndices,   \* let cursorIndices
    snapshots,       \* children of the #snapshots node, in order
    sliderValue,     \* Number(timeSlider.value)
    sliderMax,       \* Number(timeSlider.max)
    speed,           \* Number(speedEl.value)
    view,            \* what the renderers hold and show
    inflight,        \* the loader calls suspended at an await
    lastAlert,       \* text the last handler run showed with alert(), "" if none
    env,             \* the page's environment: how the slider element stores a
                     \* value, and how many errors the WebGL layer may still raise
    run,             \* observer of the current playback run since the last play click
    arg,             \* the argument of the function a function-level
                     \* specification applies (SpecLoad: the source of a loader)
    result           \* what that function returned for arg

vars == <<data, playing, rafId, rafQueue, three, navball, cursorIndices, snapshots,
          sliderValue, sliderMax, speed, view, inflight, lastAlert, env, run,
          arg, result>>

NoPlot == [tag |-> "none", N |-> -1]
NoCursor == [shown |-> FALSE, i |-> 0]
NoRun == [on |-> FALSE, i0 |-> 0, s |-> 0, ticks |-> 0]

\* The views before any load: empty time label, plots and readout, the
\* proxy at the origin.
InitView ==
    [tVal    |-> NoSample,
     plots   |-> NoPlot,
     cursor  |-> NoCursor,
     rocket  |-> NoSample,
     camera  |-> [target |-> NoSample, aspect |-> "live"],
     target  |-> "canvas",
     canvas  |-> NoSample,
     nav     |-> NoSample,
     readout |-> NoSample]

\* Faults the environment may raise in this behaviour.
Faults == IF env.faultsLeft > 0 THEN FaultSet \cup {"none"} ELSE {"none"}

\* The environment after it raised fault f (or none).
Spend(f) == IF f = "none" THEN env ELSE [env EXCEPT !.faultsLeft = @ - 1]

\* Assigning timeSlider.value: a range input clamps the value into
\* [min, max] with min = 0 (max below min counts as min); any other
\* element stores the value as assigned.
SetSlider(v, max) ==
    IF env.sanitizes THEN Max(0, Min(v, Max(max, 0))) ELSE v

\* requestAnimationFrame returns an id distinct from every pending one.  The
\* id of a callback that has run or was cancelled is handed out again: the
\* controller overwrites rafId at every request, so it cannot tell.
NewRafId(pending) ==
    CHOOSE n \in 1..(Cardinality(pending) + 1) :
        n \notin pending /\ \A m \in 1..(n - 1) : m \in pending

\* drawCursor: moves the cursor of a plot that has been drawn; no plot, no cursor.
drawCursor(v, i) ==
    IF v.plots = NoPlot THEN v ELSE [v EXCEPT !.cursor = [shown |-> TRUE, i |-> i]]

\* updateThreePose up to its render() call: the proxy takes the sample's
\* pose and the camera re-aims at it.
PoseSet(v, s) ==
    [v EXCEPT !.rocket = s, !.camera = [@ EXCEPT !.target = s]]

\* render() of the scene: draws the proxy into the renderer's current target.
Render(v) == IF v.target = "canvas" THEN [v EXCEPT !.canvas = v.rocket] ELSE v

\* updateThreePose(ctx, pos, quat); f = "three" makes render() throw.
updateThreePose(v, th, s, f) ==
    IF ~th THEN [view |-> v, threw |-> FALSE]
    ELSE IF f = "three" THEN [view |-> PoseSet(v, s), threw |-> TRUE]
    ELSE [view |-> Render(PoseSet(v, s)), threw |-> FALSE]

\* updateNavball(ctx, vel, quat); f = "navball" makes render() throw after
\* the sphere, the markers and the texts were set.
updateNavball(v, nb, s, f) ==
    IF ~nb THEN [view |-> v, threw |-> FALSE]
    ELSE [view |-> [v EXCEPT !.nav = s], threw |-> (f = "navball")]

\* updateReadout(i)
updateReadout(v, s) == [v EXCEPT !.readout = s]

\* onTimeChange(): reads the index from the slider and hands it to the time
\* label, the three cursors, the scene, the instrument and the readout, in
\* that order.  It throws before touching any view when data.t[i] is not a
\* number (data is null, i is no index of the record, or t was not read).
onTimeChange(v, d, i, th, nb, f) ==
    IF ~HasTime(d, i) THEN [view |-> v, threw |-> TRUE]
    ELSE LET s  == Sample(d, i)
             v1 == drawCursor([v EXCEPT !.tVal = s], i)
             r2 == updateThreePose(v1, th, s, f)
             r3 == updateNavball(r2.view, nb, s, f)
         IN  IF r2.threw THEN r2
             ELSE IF r3.threw THEN r3
             ELSE [view |-> updateReadout(r3.view, s), threw |-> FALSE]

\* computeEulerAll(data.quat): quatToEuler of undefined components is NaN.
computeEulerAll(q) == IF q = "num" THEN "num" ELSE "nan"

\* setData's last two statements: cursorIndices = [] and clearNode of the
\* #snapshots node.
KeptSnapshots(old) == old
ClearedSnapshots(old) == <<>>

setDataNothing(parsed, f) ==
    [data |-> data, sliderMax |-> sliderMax, sliderValue |-> sliderValue,
     view |-> view, three |-> three, navball |-> navball,
     cursorIndices |-> cursorIndices, snapshots |-> snapshots, threw |-> FALSE]

\* setData(parsed), statement by statement.  The result holds every variable
\* the function assigns and whether it threw; a throw keeps what was
\* assigned before it.  f names the fault the environment raises, if any.
setData(parsed, f) ==
    LET d    == [N |-> parsed.N, tag |-> parsed.tag, t |-> parsed.t,
                 pos |-> parsed.pos, vel |-> parsed.vel, quat |-> parsed.quat,
                 omega |-> parsed.omega, fuel |-> parsed.fuel,
                 euler |-> computeEulerAll(parsed.quat)]
         max  == d.N - 1
         base == [data |-> d, sliderMax |-> max, sliderValue |-> SetSlider(0, max),
                  view |-> view, three |-> three, navball |-> navball,
                  cursorIndices |-> cursorIndices, snapshots |-> snapshots,
                  threw |-> TRUE]
         s0   == Sample(d, 0)
         \* tVal and the three drawLines calls; a fresh svg has no cursor
         v1   == [view EXCEPT !.tVal = s0,
                              !.plots = [tag |-> d.tag, N |-> d.N],
                              !.cursor = NoCursor]
         r2   == updateThreePose(v1, TRUE, s0, f)
         r3   == updateNavball(r2.view, TRUE, s0, f)
    IN  IF ~HasTime(d, 0) THEN base                       \* data.t[0].toFixed throws
        ELSE IF ~three /\ f = "setup" THEN [base EXCEPT !.view = v1]
        ELSE IF r2.threw THEN [base EXCEPT !.view = r2.view, !.three = TRUE]
        ELSE IF r3.threw
             THEN [base EXCEPT !.view = r3.view, !.three = TRUE, !.navball = TRUE]
        ELSE [base EXCEPT !.view = r3.view, !.three = TRUE, !.navball = TRUE,
                          !.cursorIndices = ClearedSnapshots(cursorIndices),
                          !.snapshots = ClearedSnapshots(snapshots),
                          !.threw = FALSE]

\* ------------------------------------------------------------------- Init
\* The page with a range input for the time slider.
Init ==
    /\ data = NoData
    /\ playing = FALSE
    /\ rafId = 0
    /\ rafQueue = {}
    /\ three = FALSE
    /\ navball = FALSE
    /\ cursorIndices = <<>>
    /\ snapshots = <<>>
    /\ sliderMax \in 0..(MaxN - 1)
    /\ sliderValue \in 0..sliderMax
    /\ speed = 1
    /\ view = InitView
    /\ inflight = {}
    /\ lastAlert = ""
    /\ env \in [sanitizes : {TRUE}, faultsLeft : {0}]
    /\ run = NoRun
    /\ arg = NoArg
    /\ result = NoResult

\* The page whose timeSlider element stores whatever value it is assigned:
\* the controller without the clamping a range input adds.
InitPlain ==
    /\ data = NoData
    /\ playing = FALSE
    /\ rafId = 0
    /\ rafQueue = {}
    /\ three = FALSE
    /\ navball = FALSE
    /\ cursorIndices = <<>>
    /\ snapshots = <<>>
    /\ sliderMax \in 0..(MaxN - 1)
    /\ sliderValue \in 0..sliderMax
    /\ speed = 1
    /\ view = InitView
    /\ inflight = {}
    /\ lastAlert = ""
    /\ env \in [sanitizes : {FALSE}, faultsLeft : {0}]
    /\ run = NoRun
    /\ arg = NoArg
    /\ result = NoResult

\* The page with a range input for the time slider, where the WebGL layer
\* may raise errors.
InitFault ==
    /\ data = NoData
    /\ playing = FALSE
    /\ rafId = 0
    /\ rafQueue = {}
    /\ three = FALSE
    /\ navball = FALSE
    /\ cursorIndices = <<>>
    /\ snapshots = <<>>
    /\ sliderMax \in 0..(MaxN - 1)
    /\ sliderValue \in 0..sliderMax
    /\ speed = 1
    /\ view = InitView
    /\ inflight = {}
    /\ lastAlert = ""
    /\ env \in [sanitizes : {TRUE}, faultsLeft : {MaxFaults}]
    /\ run = NoRun
    /\ arg = NoArg
    /\ result = NoResult

\* The page as constructed, before any event: what the function-level
\* specifications keep fixed.
FreshPage ==
    /\ data = NoData
    /\ playing = FALSE
    /\ rafId = 0
    /\ rafQueue = {}
    /\ three = FALSE
    /\ navball = FALSE
    /\ cursorIndices = <<>>
    /\ snapshots = <<>>
    /\ sliderMax = 0
    /\ sliderValue = 0
    /\ speed = 1
    /\ view = InitView
    /\ inflight = {}
    /\ lastAlert = ""
    /\ env = [sanitizes |-> TRUE, faultsLeft |-> 0]
    /\ run = NoRun

\* A source in hand for a loader to read.
InitLoad == FreshPage /\ arg \in SrcSet /\ result = NoResult

\* A quaternion in hand for quatToEuler.
InitEuler == FreshPage /\ arg \in QuatSet /\ result = NoResult

\* A velocity and an orientation in hand for updateNavball.
InitNav == FreshPage /\ arg \in [q : QuatSet, v : VelSet] /\ result = NoResult

\* No load requested yet.  In the overlap specification arg lists the loads
\* in the order of their requests, each with the file it reads (for a demo
\* load, the file the last answering location gave) and fin, its place in
\* the order of completions, 0 while it awaits I/O; result names the file of
\* the load that completed last and whether it completed successfully.
InitOverlap == FreshPage /\ arg = <<>> /\ result = NoResult

\* The page before any event, at the browser's frame 0.  In the playback
\* specification arg is the number of the animation frame, counted modulo
\* FrameWrap.
InitRun == FreshPage /\ arg = 0 /\ result = NoResult

\* A plot of N samples in a container W wide, and an index i of it.
InitPlot ==
    /\ FreshPage
    /\ arg \in {a \in [N : 1..MaxPlotN, W : WidthSet, i : 0..(MaxPlotN - 1)] : a.i < a.N}
    /\ result = NoResult

\* An angle in hand, as Math.atan2 returned it for a forward axis whose
\* projection passed the test proj > 1e-2.
InitHdg == FreshPage /\ arg \in AngleSet /\ result = NoResult

\* cancelAnimationFrame(id): the callback of that id, if pending, is dropped.
CancelNothing(pending, id) == pending
cancelAnimationFrame(pending, id) == pending \ {id}

\* ---------------------------------------------------------------- actions
\* playPause click handler.
PlayPauseClick ==
    /\ playing' = ~playing
    /\ IF ~playing
       THEN LET left == cancelAnimationFrame(rafQueue, rafId)
            IN  /\ rafQueue' = left \cup {NewRafId(left)}
                /\ rafId' = NewRafId(left)
            /\ run' = IF HasTime(data, sliderValue) /\ speed > 0
                      THEN [on |-> TRUE, i0 |-> sliderValue, s |-> speed, ticks |-> 0]
                      ELSE NoRun
       ELSE /\ UNCHANGED <<rafQueue, rafId>>
            /\ run' = NoRun
    /\ lastAlert' = ""
    /\ UNCHANGED <<arg, result, data, three, navball, cursorIndices, snapshots, sliderValue,
                   sliderMax, speed, view, inflight, env>>

\* tick's first line: it returns at once unless playing and data are set.
TickIdleAlways == data = NoData
TickIdle == ~playing \/ data = NoData

\* tick's next index: the slider value plus the speed, clamped to the last index.
NextIndexStuck(i, dt, N) == Min(N - 1, i)
NextIndex(i, dt, N) == Min(N - 1, i + dt)

\* tick(): the body of the animation-frame callback.  The result holds what
\* it assigns; a throw in onTimeChange leaves tick before the end test and
\* before the next frame is requested.
tick(f) ==
    LET same == [sliderValue |-> sliderValue, view |-> view, playing |-> playing,
                 schedule |-> FALSE, ran |-> FALSE, threw |-> FALSE]
    IN  IF TickIdle THEN same
        ELSE LET dt   == speed
                 next == NextIndex(sliderValue, dt, data.N)
                 val  == SetSlider(next, sliderMax)
                 r    == onTimeChange(view, data, val, three, navball, f)
             IN  IF r.threw
                 THEN [same EXCEPT !.sliderValue = val, !.view = r.view,
                                   !.ran = TRUE, !.threw = TRUE]
                 ELSE IF val >= data.N - 1
                 THEN [same EXCEPT !.sliderValue = val, !.view = r.view,
                                   !.ran = TRUE, !.playing = FALSE]
                 ELSE [same EXCEPT !.sliderValue = val, !.view = r.view,
                                   !.ran = TRUE, !.schedule = TRUE]

\* The browser runs a pending animation-frame callback.
RafFireStep ==
    \E id \in rafQueue, f \in Faults \ {"setup", "snap"} :
        LET r == tick(f)
        IN  /\ r.sliderValue >= -MaxBelow
            /\ sliderValue' = r.sliderValue
            /\ view' = r.view
            /\ playing' = r.playing
            /\ IF r.schedule
               THEN /\ rafQueue' = (rafQueue \ {id}) \cup {NewRafId(rafQueue \ {id})}
                    /\ rafId' = NewRafId(rafQueue \ {id})
               ELSE /\ rafQueue' = rafQueue \ {id}
                    /\ rafId' = rafId
            /\ run' = IF ~run.on \/ ~r.ran THEN run
                      ELSE IF f # "none" THEN NoRun
                      ELSE [run EXCEPT !.ticks = @ + 1]
            /\ env' = Spend(f)
            /\ lastAlert' = ""
            /\ UNCHANGED <<data, three, navball, cursorIndices, snapshots,
                           sliderMax, speed, inflight>>

RafFire == RafFireStep /\ UNCHANGED <<arg, result>>

\* timeSlider input handler, the user having dragged the slider to j.
SliderInputAt(j, f) ==
    LET r == onTimeChange(view, data, j, three, navball, f)
    IN  /\ sliderValue' = j
        /\ playing' = FALSE
        /\ view' = r.view
        /\ run' = NoRun
        /\ env' = Spend(f)
        /\ lastAlert' = ""
        /\ UNCHANGED <<arg, result, data, rafId, rafQueue, three, navball, cursorIndices,
                       snapshots, sliderMax, speed, inflight>>

\* The slider lets the user pick any value from its minimum 0 to its maximum.
SliderInput ==
    \E j \in 0..Max(sliderMax, 0), f \in Faults \ {"setup", "snap"} :
        SliderInputAt(j, f)

\* handlePlotClick(e, container) for a click x pixels right of the
\* container's left edge, the container being PlotW pixels wide.
handlePlotClick(x, f) ==
    IF data = NoData
    THEN [sliderValue |-> sliderValue, view |-> view, playing |-> playing]
    ELSE LET val == SetSlider(ClickIdx(x, 1, PlotW, data.N), sliderMax)
             r   == onTimeChange(view, data, val, three, navball, f)
         IN  [sliderValue |-> val, view |-> r.view, playing |-> playing]

\* A click on posPlot, velPlot or eulerPlot (one handler serves the three)
\* at pixel x of the container.
PlotClickAt(x, f) ==
    LET r == handlePlotClick(x, f)
    IN  /\ sliderValue' = r.sliderValue
        /\ view' = r.view
        /\ playing' = r.playing
        /\ run' = NoRun
        /\ env' = Spend(f)
        /\ lastAlert' = ""
        /\ UNCHANGED <<arg, result, data, rafId, rafQueue, three, navball, cursorIndices,
                       snapshots, sliderMax, speed, inflight>>

PlotClick ==
    \E x \in 0..PlotW, f \in Faults \ {"setup", "snap"} : PlotClickAt(x, f)

\* The user picks another entry of the speed selector; no handler runs.
SpeedChange ==
    \E s \in SpeedSet \ {speed} :
        /\ speed' = s
        /\ run' = NoRun
        /\ lastAlert' = ""
        /\ UNCHANGED <<arg, result, data, playing, rafId, rafQueue, three, navball, cursorIndices,
                       snapshots, sliderValue, sliderMax, view, inflight, env>>

\* addSnapshot(container, ctx, pos, quat, t) for sample i of record d.  It
\* throws before touching the scene when ctx is null or pos/quat are
\* undefined; f = "snap" makes the off-screen render throw, between the pose
\* override and its restore; t.toFixed throws, after the restore, when t is
\* undefined.  tempCam is a clone: the live camera is never written.
addSnapshot(v, d, i, th, f) ==
    IF ~th \/ i \notin 0..(d.N - 1) THEN [view |-> v, added |-> FALSE, threw |-> TRUE]
    ELSE LET over == [v EXCEPT !.rocket = Sample(d, i), !.target = "offscreen"]
             back == [over EXCEPT !.target = "canvas", !.rocket = v.rocket]
         IN  IF f = "snap" THEN [view |-> over, added |-> FALSE, threw |-> TRUE]
             ELSE IF d.t # "num" THEN [view |-> back, added |-> FALSE, threw |-> TRUE]
             ELSE [view |-> back, added |-> TRUE, threw |-> FALSE]

\* handleSnapshots(): the Add-snapshot button or a double click on the 3D
\* canvas.  It returns at once when the index is in cursorIndices; else the
\* index is pushed before addSnapshot runs, so it stays even when that throws.
handleSnapshots ==
    \E f \in Faults \ {"setup", "three", "navball"} :
        LET i == sliderValue
        IN  /\ IF Includes(cursorIndices, i)
               THEN UNCHANGED <<cursorIndices, view, snapshots>>
               ELSE /\ Len(cursorIndices) < MaxSnaps
                    /\ cursorIndices' = Append(cursorIndices, i)
                    /\ IF data = NoData
                       THEN UNCHANGED <<view, snapshots>>          \* data.pos throws
                       ELSE LET r == addSnapshot(view, data, i, three, f)
                            IN  /\ view' = r.view
                                /\ snapshots' = IF r.added
                                                THEN Append(snapshots, Sample(data, i))
                                                ELSE snapshots
            /\ env' = IF Includes(cursorIndices, i) THEN env ELSE Spend(f)
            /\ f # "none" => ~Includes(cursorIndices, i)
            /\ lastAlert' = ""
            /\ UNCHANGED <<arg, result, data, playing, rafId, rafQueue, three, navball, sliderValue,
                           sliderMax, speed, inflight, run>>

\* The loader the handler picks from the extension: loadCSV for csv,
\* loadParquet for everything else.
LoaderOf(file) == IF file.ext = "csv" THEN "loadCSV" ELSE "loadParquet"

\* The call of the picked loader on the file.
LoadByExt(file) == IF LoaderOf(file) = "loadCSV" THEN loadCSV(file) ELSE loadParquet(file)

\* fileInput change handler up to its first await: the loader picked from
\* the file's extension starts reading the file.
\* limit is the number of loads the behaviour lets overlap.
FileChangeOf(file, limit) ==
    /\ Cardinality(inflight) < limit
    /\ inflight' = inflight \cup {LoaderOf(file)}
    /\ lastAlert' = ""
    /\ UNCHANGED <<data, playing, rafId, rafQueue, three, navball, cursorIndices,
                   snapshots, sliderValue, sliderMax, speed, view, env, run>>

FileChange ==
    \E file \in FileSet : FileChangeOf(file, MaxInflight) /\ UNCHANGED <<arg, result>>

\* The rest of the fileInput change handler: the read resolves with the
\* file's bytes, the loader returns or throws, setData runs, and the catch
\* block alerts on any throw.
LoadDoneStep(file, f) ==
        LET p == LoadByExt(file)
        IN  /\ LoaderOf(file) \in inflight
            /\ inflight' = inflight \ {LoaderOf(file)}
            /\ IF ~p.ok
               THEN /\ lastAlert' = "Failed to load file"
                    /\ UNCHANGED <<data, sliderMax, sliderValue, view, three, navball,
                                   cursorIndices, snapshots, run>>
               ELSE LET r == setData(p.rec, f)
                    IN  /\ data' = r.data
                        /\ sliderMax' = r.sliderMax
                        /\ sliderValue' = r.sliderValue
                        /\ view' = r.view
                        /\ three' = r.three
                        /\ navball' = r.navball
                        /\ cursorIndices' = r.cursorIndices
                        /\ snapshots' = r.snapshots
                        /\ lastAlert' = IF r.threw THEN "Failed to load file" ELSE ""
                        /\ run' = NoRun
            /\ env' = Spend(f)
            /\ UNCHANGED <<playing, rafId, rafQueue, speed>>

LoadDoneOf(file, f) == LoadDoneStep(file, f) /\ UNCHANGED <<arg, result>>

\* The read of some picked file resolves.
LoadDone ==
    \E file \in FileSet, f \in Faults \ {"snap"} : LoadDoneOf(file, f)

\* The demo handler's candidate paths, in the order of its for loop.
NumDemoPaths == 3
DemoPaths == 1..NumDemoPaths

\* The demo handler suspended at the fetch of candidate k.
FetchOf(k) == CASE k = 1 -> "fetch1" [] k = 2 -> "fetch2" [] k = 3 -> "fetch3"

\* What a candidate location answers: nothing (the fetch rejects or the
\* response is not ok), or the bytes of some file.
NoFile == [ext |-> "", content |-> "missing", rows |-> 0, cols |-> {}, tag |-> "A"]
DemoOutcomes == FileSet \cup {NoFile}

\* demoBtn click handler up to its first await: the fetch of the first path.
DemoClickUpTo(limit) ==
    /\ Cardinality(inflight) < limit
    /\ \A k \in DemoPaths : FetchOf(k) \notin inflight
    /\ inflight' = inflight \cup {FetchOf(1)}
    /\ lastAlert' = ""
    /\ UNCHANGED <<data, playing, rafId, rafQueue, three, navball,
                   cursorIndices, snapshots, sliderValue, sliderMax, speed, view,
                   env, run>>

DemoClick == DemoClickUpTo(MaxInflight) /\ UNCHANGED <<arg, result>>

\* One iteration of the demo handler's loop, from the answer o of candidate
\* k on: a response that is not ok continues with the next path; otherwise
\* loadParquet and setData run, a throw of either is swallowed by catch {}
\* and the loop continues, and a setData that returns ends the handler.
\* After the last path the handler alerts that the file was not located.
DemoFetchStep(k, o, f) ==
    LET p    == loadParquet(o)
        r    == setData(p.rec, f)
        done == p.ok /\ ~r.threw
    IN  /\ FetchOf(k) \in inflight
        /\ IF p.ok
           THEN /\ data' = r.data
                /\ sliderMax' = r.sliderMax
                /\ sliderValue' = r.sliderValue
                /\ view' = r.view
                /\ three' = r.three
                /\ navball' = r.navball
                /\ cursorIndices' = r.cursorIndices
                /\ snapshots' = r.snapshots
                /\ run' = NoRun
                /\ env' = Spend(f)
           ELSE /\ f = "none"
                /\ UNCHANGED <<data, sliderMax, sliderValue, view, three, navball,
                               cursorIndices, snapshots, run, env>>
        /\ inflight' = IF done \/ k = NumDemoPaths
                       THEN inflight \ {FetchOf(k)}
                       ELSE (inflight \ {FetchOf(k)}) \cup {FetchOf(k + 1)}
        /\ lastAlert' = IF ~done /\ k = NumDemoPaths
                        THEN "Could not locate rocket_traj.parquet"
                        ELSE ""
        /\ UNCHANGED <<playing, rafId, rafQueue, speed>>

DemoFetchDone(k, o, f) == DemoFetchStep(k, o, f) /\ UNCHANGED <<arg, result>>

\* A candidate location answers the pending fetch.
DemoDone ==
    \E k \in DemoPaths, o \in DemoOutcomes, f \in Faults \ {"snap"} :
        DemoFetchDone(k, o, f)

\* loadCSV runs on the source.
LoadCSVFile ==
    /\ arg.format = "csv"
    /\ result = NoResult
    /\ result' = loadCSVCells(arg)
    /\ UNCHANGED <<data, playing, rafId, rafQueue, three, navball, cursorIndices,
                   snapshots, sliderValue, sliderMax, speed, view, inflight,
                   lastAlert, env, run, arg>>

\* loadParquet runs on the source.
LoadParquetFile ==
    /\ arg.format = "parquet"
    /\ result = NoResult
    /\ result' = loadParquetCols(arg)
    /\ UNCHANGED <<data, playing, rafId, rafQueue, three, navball, cursorIndices,
                   snapshots, sliderValue, sliderMax, speed, view, inflight,
                   lastAlert, env, run, arg>>

\* quatToEuler runs on the quaternion.
EulerOfQuat ==
    /\ result = NoResult
    /\ result' = quatToEuler(arg)
    /\ UNCHANGED <<data, playing, rafId, rafQueue, three, navball, cursorIndices,
                   snapshots, sliderValue, sliderMax, speed, view, inflight,
                   lastAlert, env, run, arg>>

\* updateNavball runs on the velocity and the orientation.
NavballOfQuat ==
    /\ result = NoResult
    /\ result' = [heading |-> Heading(arg.q), markers |-> Markers(arg.v, arg.q)]
    /\ UNCHANGED <<data, playing, rafId, rafQueue, three, navball, cursorIndices,
                   snapshots, sliderValue, sliderMax, speed, view, inflight,
                   lastAlert, env, run, arg>>

Next ==
    \/ PlayPauseClick
    \/ RafFire
    \/ SliderInput
    \/ PlotClick
    \/ SpeedChange
    \/ handleSnapshots
    \/ FileChange
    \/ LoadDone
    \/ DemoClick
    \/ DemoDone

Spec == Init /\ [][Next]_vars

\* The fault specification follows the loads of picked files only: a demo
\* load runs the same loadParquet and setData.
NextFault ==
    \/ PlayPauseClick
    \/ RafFire
    \/ SliderInput
    \/ PlotClick
    \/ SpeedChange
    \/ handleSnapshots
    \/ FileChange
    \/ LoadDone

SpecFault == InitFault /\ [][NextFault]_vars

SpecPlain == InitPlain /\ [][Next]_vars

NextLoad ==
    \/ LoadCSVFile
    \/ LoadParquetFile

\* The loaders as functions of their input.
SpecLoad == InitLoad /\ [][NextLoad]_vars

NextEuler == EulerOfQuat

\* quatToEuler as a function of its input.
SpecEuler == InitEuler /\ [][NextEuler]_vars

NextNav == NavballOfQuat

\* The instrument's texts as a function of the sample.
SpecNav == InitNav /\ [][NextNav]_vars

\* A trajectory of N >= 1 samples with its time column is installed.
Installed == data # NoData /\ data.N >= 1 /\ data.t = "num"

\* The animation frames are counted modulo FrameWrap.
FrameWrap == 2

\* What the user does before a playback runs: once the controller is
\* Playing on an installed trajectory the user leaves it alone.
BeforeRun ==
    /\ ~(playing /\ Installed)
    /\ \/ PlayPauseClick
       \/ SliderInput
       \/ SpeedChange
       \/ FileChange
       \/ LoadDone

\* The browser renders a frame and runs the pending animation-frame callback.
Frame ==
    /\ RafFireStep
    /\ arg' = (arg + 1) % FrameWrap
    /\ UNCHANGED result

NextRun ==
    \/ BeforeRun
    \/ Frame

\* Playback left alone: the browser runs a requested animation-frame
\* callback at its next frame.
SpecRun == InitRun /\ [][NextRun]_vars /\ WF_vars(Frame)

\* How many loads may await I/O at once, and how many are requested in all.
MaxOverlap == 2
MaxRequests == 3

Finished == {j \in DOMAIN arg : arg[j].fin > 0}

\* The user picks a file while at most MaxOverlap - 1 loads are pending.
RequestFile ==
    \E file \in FileSet :
        /\ Len(arg) < MaxRequests
        /\ LoaderOf(file) \notin inflight
        /\ FileChangeOf(file, MaxOverlap)
        /\ arg' = Append(arg, [kind |-> "file", file |-> file, fin |-> 0])
        /\ UNCHANGED result

\* The user clicks the demo button while at most MaxOverlap - 1 loads are pending.
RequestDemo ==
    /\ Len(arg) < MaxRequests
    /\ DemoClickUpTo(MaxOverlap)
    /\ arg' = Append(arg, [kind |-> "demo", file |-> NoFile, fin |-> 0])
    /\ UNCHANGED result

\* The read of a pending file load resolves and its handler runs to the end.
FinishFile ==
    \E j \in DOMAIN arg :
        /\ arg[j].kind = "file" /\ arg[j].fin = 0
        /\ LoadDoneStep(arg[j].file, "none")
        /\ arg' = [arg EXCEPT ![j].fin = Cardinality(Finished) + 1]
        /\ result' = [ok |-> lastAlert' = "", file |-> arg[j].file]

\* A candidate location answers the pending demo load; the load is
\* complete when its handler has returned.
FinishDemo ==
    \E j \in DOMAIN arg, k \in DemoPaths, o \in DemoOutcomes :
        LET p == loadParquet(o)
        IN  /\ arg[j].kind = "demo" /\ arg[j].fin = 0
            /\ DemoFetchStep(k, o, "none")
            /\ arg' = [arg EXCEPT
                         ![j].file = IF p.ok THEN o ELSE @,
                         ![j].fin = IF \E kk \in DemoPaths : FetchOf(kk) \in inflight'
                                    THEN 0 ELSE Cardinality(Finished) + 1]
            /\ result' = IF p.ok
                          THEN [ok |-> ~setData(p.rec, "none").threw, file |-> o]
                          ELSE IF k = NumDemoPaths
                          THEN [ok |-> FALSE, file |-> arg[j].file]
                          ELSE result

NextOverlap ==
    \/ RequestFile
    \/ RequestDemo
    \/ FinishFile
    \/ FinishDemo

\* Loads that overlap, followed from request to completion.
SpecOverlap == InitOverlap /\ [][NextOverlap]_vars

\* drawCursor places the cursor of index arg.i with the scale of drawLines.
CursorAt ==
    /\ result = NoResult
    /\ result' = [ok |-> TRUE, x |-> XScale(arg.i, arg.N, arg.W), clicked |-> FALSE, idx |-> -1]
    /\ UNCHANGED <<data, playing, rafId, rafQueue, three, navball, cursorIndices,
                   snapshots, sliderValue, sliderMax, speed, view, inflight,
                   lastAlert, env, run, arg>>

\* The user clicks the plot at the pixel where the cursor is drawn.
ClickAtCursor ==
    /\ result # NoResult /\ ~result.clicked /\ result.x.k = "num"
    /\ result' = [result EXCEPT !.clicked = TRUE,
                                !.idx = ClickIdx(result.x.num, result.x.den, arg.W, arg.N)]
    /\ UNCHANGED <<data, playing, rafId, rafQueue, three, navball, cursorIndices,
                   snapshots, sliderValue, sliderMax, speed, view, inflight,
                   lastAlert, env, run, arg>>

NextPlot ==
    \/ CursorAt
    \/ ClickAtCursor

\* The plot's index-to-pixel scale and the click's pixel-to-index mapping.
SpecPlot == InitPlot /\ [][NextPlot]_vars

\* updateNavball's heading text is written from the angle.
HeadingOfAngle ==
    /\ result = NoResult
    /\ result' = [k |-> "num", hdg |-> HdgOf(arg), shown |-> HdgShown(arg)]
    /\ UNCHANGED <<data, playing, rafId, rafQueue, three, navball, cursorIndices,
                   snapshots, sliderValue, sliderMax, speed, view, inflight,
                   lastAlert, env, run, arg>>

NextHdg == HeadingOfAngle

\* The numeric heading text as a function of the angle.
SpecHdg == InitHdg /\ [][NextHdg]_vars

\* ------------------------------------------------------------------ claims
Ceil(a, b) == (a + b - 1) \div b

C2_UninterruptedPlayback ==
    (run.on /\ run.i0 < data.N - 1) =>
        /\ Installed
        /\ run.s = speed /\ run.s > 0
        /\ sliderValue = Min(data.N - 1, run.i0 + run.ticks * run.s)
        /\ sliderValue <= data.N - 1
        /\ playing <=> (sliderValue < data.N - 1)
        /\ playing => (run.ticks < Ceil(data.N - 1 - run.i0, run.s) /\ rafQueue # {})
        /\ ~playing => (run.ticks = Ceil(data.N - 1 - run.i0, run.s) /\ rafQueue = {})

\* A run over the full trajectory at speed 1 has stopped after N-1 ticks.
C2_Witness ==
    /\ run.on /\ ~playing /\ run.i0 = 0 /\ run.s = 1
    /\ data.N = MaxN /\ run.ticks = MaxN - 1 /\ sliderValue = MaxN - 1

\* C3: while no trajectory is installed the controller is never Playing.
C3_PlayNeedsTrajectory == (data = NoData) => ~playing

\* C4: every absolute seek on an installed trajectory, by the slider or by
\* a click on a plot, leaves the controller Stopped with the index on a
\* sample of the trajectory.
C4_SeekStops ==
    [][((SliderInput \/ PlotClick) /\ Installed)
          => (~playing' /\ sliderValue' \in 0..(data.N - 1))]_vars

\* C5: when a load installs a trajectory while the controller is Playing, the
\* tick scheduled before the load is cancelled: the index is 0 and no
\* animation-frame callback is left pending to advance it.
C5_LoadCancelsTick ==
    [][(LoadDone /\ playing /\ lastAlert' = "")
          => (sliderValue' = 0 /\ rafQueue' = {})]_vars

\* C6: while the controller stays Stopped, a step that changes the index is
\* a seek (or a load); in particular an animation-frame callback that was
\* scheduled before the pause leaves the index alone.
C6_PauseFreezesIndex ==
    [][(~playing /\ ~playing' /\ sliderValue' # sliderValue)
          => (SliderInput \/ PlotClick \/ LoadDone \/ DemoDone)]_vars

\* Paused on an installed trajectory, short of its end, at a positive
\* speed, with a tick from before the pause still pending.
C6_Witness ==
    /\ Installed /\ ~playing /\ rafQueue # {}
    /\ sliderValue \in 0..(data.N - 2) /\ speed > 0

\* C7: a load that ends in the failure message leaves the installed record
\* (with its Euler record), the index, the playing flag and the snapshot
\* list as they were.
C7_FailedLoadKeepsState ==
    [][(LoadDone /\ lastAlert' # "")
          => (data' = data /\ sliderValue' = sliderValue /\ playing' = playing
              /\ snapshots' = snapshots)]_vars

\* C8: no record that lacks a required channel (time, position, velocity,
\* quaternion) is ever installed.
C8_RequiredChannels ==
    (data # NoData) =>
        (data.t = "num" /\ data.pos = "num" /\ data.vel = "num" /\ data.quat = "num")

\* C9: between handler runs every view (time label, plot cursors, proxy pose,
\* 3D canvas, instrument, readout) shows the sample at the current index of
\* the installed trajectory.
C9_ViewsShowCurrentSample ==
    HasTime(data, sliderValue) =>
        LET s == Sample(data, sliderValue)
        IN  /\ view.tVal = s
            /\ view.plots = [tag |-> data.tag, N |-> data.N]
            /\ view.cursor = [shown |-> TRUE, i |-> sliderValue]
            /\ view.rocket = s
            /\ view.canvas = s
            /\ view.nav = s
            /\ view.readout = s

\* C10: a snapshot request, whether the capture completes or raises an
\* error, leaves the proxy's pose, the live camera, the live renderer's
\* target and canvas, the index and the playing flag as they were.
C10_SnapshotLeavesLiveView ==
    [][handleSnapshots
          => (/\ view'.rocket = view.rocket
              /\ view'.camera = view.camera
              /\ view'.target = view.target
              /\ view'.canvas = view.canvas
              /\ sliderValue' = sliderValue
              /\ playing' = playing)]_vars

\* a is an initial segment of b.
IsPrefix(a, b) == Len(a) <= Len(b) /\ \A k \in 1..Len(a) : a[k] = b[k]

\* C11: the snapshot list never holds two snapshots of the same sample
\* index; every step other than a load (of a picked file or of the demo
\* file) keeps the existing snapshots in place and in order, adding at the
\* end only; and a snapshot request at an index that has a snapshot adds
\* nothing.
C11_SnapshotsAppendOnly ==
    [][/\ \A j, k \in 1..Len(snapshots') :
              j # k => snapshots'[j].i # snapshots'[k].i
       /\ ~IsPrefix(snapshots, snapshots') => (LoadDone \/ DemoDone)
       /\ ((\E k \in 1..Len(snapshots) : snapshots[k].i = sliderValue)
              /\ handleSnapshots)
             => snapshots' = snapshots]_vars

\* Two snapshots taken at different indices, the slider back on the first.
C11_Witness ==
    /\ Len(snapshots) = 2 /\ snapshots[1].i # snapshots[2].i
    /\ sliderValue = snapshots[1].i

\* C12: no play, pause, tick, seek or speed change alters the snapshot list
\* or the captured indices; every load that succeeds, of a picked file or
\* of the demo file (a step that ends a pending load), leaves both empty;
\* and on an installed trajectory a request at an index that is not among
\* the captured ones appends the snapshot of that index.
C12_LoadClearsSnapshots ==
    [][/\ (snapshots' # snapshots \/ cursorIndices' # cursorIndices)
             => ~(PlayPauseClick \/ RafFire \/ SliderInput \/ PlotClick \/ SpeedChange)
       /\ ((snapshots' # <<>> \/ cursorIndices' # <<>>) /\ lastAlert' = ""
              /\ inflight' # inflight)
             => ~LoadDone
       /\ ((snapshots' # <<>> \/ cursorIndices' # <<>>) /\ inflight' # inflight)
             => ~(\E k \in DemoPaths, o \in DemoOutcomes :
                    loadParquet(o).ok /\ DemoFetchDone(k, o, "none"))
       /\ (HasTime(data, sliderValue) /\ ~Includes(cursorIndices, sliderValue)
             /\ handleSnapshots)
             => (/\ snapshots' = Append(snapshots, Sample(data, sliderValue))
                 /\ cursorIndices' = Append(cursorIndices, sliderValue))]_vars

\* Index 0 of the second trajectory holds a snapshot while a view still
\* shows the first trajectory: the capture came after the load.
C12_Witness ==
    /\ Installed /\ data.tag = "B"
    /\ snapshots = <<Sample(data, 0)>> /\ cursorIndices = <<0>>
    /\ view.readout.tag = "A"

\* C13: when a tick of a running playback, short of the last sample, meets
\* an error raised by a renderer, the controller stays Playing and the next
\* tick is scheduled.
C13_FrameErrorKeepsPlaying ==
    [][(/\ RafFire /\ playing /\ Installed /\ three
        /\ speed > 0 /\ sliderValue \in 0..(data.N - 2)
        /\ env'.faultsLeft < env.faultsLeft)
          => (playing' /\ rafQueue' # {})]_vars

\* The channel flag of the controller's model for a column of values.
ChannelFlag(col) ==
    IF \A i \in DOMAIN col : col[i].k = "num" THEN "num"
    ELSE IF \E i \in DOMAIN col : col[i].k = "undef" THEN "undef"
    ELSE "nan"

\* The record of a loader as setData's model takes it.
Abstract(rec) ==
    [N |-> Len(rec.t), tag |-> "A", t |-> ChannelFlag(rec.t),
     pos |-> ChannelFlag(rec.pos), vel |-> ChannelFlag(rec.vel),
     quat |-> ChannelFlag(rec.quat), omega |-> ChannelFlag(rec.omega),
     fuel |-> ChannelFlag(rec.fuel)]

\* C14: a source of N >= 1 rows that has the required columns and none of
\* the optional ones loads in either format: the loader returns a record of
\* N samples whose fuel is NaN at every index and whose position, velocity
\* and quaternion hold the source's numbers, and setData installs it.
C14_NoOptionalColumns ==
    (/\ result # NoResult /\ arg.cols = RequiredCols
     /\ arg.probe.kind = "num" /\ arg.n >= 1)
       => /\ result.ok
          /\ \A c \in AllCols : DOMAIN result.rec[c] = 1..arg.n
          /\ \A i \in 1..arg.n :
                /\ result.rec.fuel[i] = NaNVal
                /\ \A c \in {"pos", "vel", "quat"} :
                      result.rec[c][i] = Num(CellVal(c, i))
          /\ ~setData(Abstract(result.rec), "none").threw

\* A delimited-text source of MaxN rows with the required columns only, read by loadCSV.
C14_Witness ==
    /\ result # NoResult /\ arg.format = "csv" /\ arg.cols = RequiredCols
    /\ arg.n = MaxN /\ arg.probe.kind = "num"
    /\ result.rec.fuel[MaxN] = NaNVal

\* C15: for every source with a time column, every channel of the returned
\* record has one value per time sample; a channel whose column the source
\* lacks (a column shorter than the time column) holds NaN at every index;
\* and whenever a column is shorter or longer than the time column the
\* loader has logged a diagnostic; it never throws.
C15_ChannelLengths ==
    (result # NoResult /\ "t" \in arg.cols) =>
        /\ result.ok
        /\ \A c \in AllCols : DOMAIN result.rec[c] = DOMAIN result.rec.t
        /\ \A c \in AllCols \ arg.cols : \A i \in DOMAIN result.rec.t :
              result.rec[c][i] = NaNVal
        /\ (arg.n > 0 /\ AllCols \ arg.cols # {}) => result.log # <<>>

\* C16: in a delimited-text source, a cell that holds no numeral (nothing,
\* blanks or a word) reads as NaN in the record, the record keeps one
\* sample per data row, and every other cell reads as its number.
C16_MalformedCellIsSentinel ==
    (/\ result # NoResult /\ arg.format = "csv"
     /\ arg.probe.c \in arg.cols
     /\ arg.probe.kind \in {"empty", "space", "word"})
       => /\ result.rec[arg.probe.c][arg.probe.i] = NaNVal
          /\ \A c \in arg.cols : DOMAIN result.rec[c] = 1..arg.n
          /\ \A c \in arg.cols, i \in 1..arg.n :
                (c # arg.probe.c \/ i # arg.probe.i)
                   => result.rec[c][i] = Num(CellVal(c, i))

\* C17: when a candidate location of a demo request answers with a file,
\* the trajectory of that file is installed and the request ends there, no
\* later candidate being fetched; when the last candidate answers nothing,
\* nothing is installed and the not-located message is shown.
C17_DemoFirstResolved ==
    [][\A k \in DemoPaths, o \in DemoOutcomes :
          DemoFetchDone(k, o, "none") =>
              /\ o # NoFile =>
                    /\ data' # NoData
                    /\ data'.tag = o.tag /\ data'.N = o.rows
                    /\ \A j \in DemoPaths : FetchOf(j) \notin inflight'
                    /\ lastAlert' = ""
              /\ (o = NoFile /\ k = NumDemoPaths) =>
                    /\ data' = data
                    /\ lastAlert' = "Could not locate rocket_traj.parquet"]_vars

\* C18: a load of a file whose extension is neither csv nor parquet ends
\* in a failure message and leaves the installed record as it was.
C18_UnsupportedExtension ==
    [][\A file \in FileSet :
          (file.ext \notin {"csv", "parquet"} /\ LoadDoneOf(file, "none"))
             => (lastAlert' # "" /\ data' = data)]_vars

\* C19: for every quaternion whose pitch sine term 2(w*y - z*x) is at least
\* 1 in magnitude, quatToEuler's pitch is +pi/2 or -pi/2 with the sign of
\* that term and is not NaN; and whatever the quaternion, the arcsine is
\* taken only of values strictly between -1 and 1.
C19_PitchGuard ==
    (result # NoResult) =>
        LET s == arg.w * arg.y - arg.z * arg.x      \* sinp = s/2
        IN  /\ Abs(s) >= 2 =>
                  /\ result.pitch.k = "halfpi"
                  /\ result.pitch.sgn = Sign(s) /\ result.pitch.sgn \in {-1, 1}
            /\ result.pitch.k # "nan"
            /\ result.pitch.k = "asin" => Abs(result.pitch.num) < result.pitch.den

\* The sine term is exactly 1 (w = 1, y = 1/2) and the pitch came out +pi/2.
C19_Witness ==
    /\ result # NoResult
    /\ arg = [w |-> 2, x |-> 0, y |-> 1, z |-> 0]
    /\ result.pitch = HalfPi(1)

\* C20: when the body's forward axis is vertical in the Z-up world frame of
\* the trajectory and the scene, its projection onto the horizontal X-Y
\* plane being no longer than the threshold 1e-2, the heading shown is
\* 'HDG ---' and not a number.
C20_VerticalHeadingUnavailable ==
    (result # NoResult) =>
        LET f == ForwardWorld(arg.q)
        IN  (10000 * (f.x * f.x + f.y * f.y) <= f.n2 * f.n2)
               => result.heading.k = "none"

\* C21: whenever the instrument shows a numeric heading, the number shown
\* (the heading after rounding) is one of 0..359: never 360, never negative.
C21_HeadingShownInRange ==
    (result # NoResult) => result.shown \in 0..359

\* C22: when the speed is at or below 1e-6 m/s or is not finite both markers
\* are hidden; otherwise the retrograde direction is the negation of the
\* prograde direction, each marker is visible exactly when its own depth
\* (z) component is positive, and the two are never visible together.
C22_MarkersOpposed ==
    (result # NoResult) =>
        LET pro   == result.markers.prograde
            retro == result.markers.retrograde
            v     == arg.v
        IN  IF v.k # "num" \/ v.x * v.x + v.y * v.y + v.z * v.z <= 1
            THEN ~pro.visible /\ ~retro.visible
            ELSE /\ retro.pos = [x |-> -pro.pos.x, y |-> -pro.pos.y, z |-> -pro.pos.z]
                 /\ pro.visible <=> pro.pos.z > 0
                 /\ retro.visible <=> retro.pos.z > 0
                 /\ ~(pro.visible /\ retro.visible)

\* A velocity above the threshold that points away from the viewer under a
\* turned orientation: the retrograde marker shows, the prograde one is culled.
C22_Witness ==
    /\ result # NoResult
    /\ arg.v = [k |-> "num", x |-> 1, y |-> 1, z |-> 0]
    /\ arg.q = [w |-> 1, x |-> 1, y |-> 0, z |-> 0]
    /\ result.markers.retrograde.visible /\ ~result.markers.prograde.visible

\* C23: for a trajectory of N >= 2 samples, a click at the pixel where the
\* cursor of index i is drawn seeks to index i, and the index a click
\* yields lies in 0..N-1.
C23_ClickInvertsScale ==
    (result # NoResult /\ result.clicked /\ arg.N >= 2) =>
        /\ result.idx \in 0..(arg.N - 1)
        /\ result.idx = arg.i

\* C24: for every N >= 1 and every index i of the plot, the pixel column of
\* i is a number inside the plot area (from margin.l to W - margin.r) that
\* is the left edge for i = 0 and the right edge for i = N-1, and the column
\* of every later index is strictly greater.
C24_ScaleDefined ==
    (result # NoResult) =>
        LET x == result.x
            left == MarginL
            right == arg.W - MarginR
        IN  /\ x.k = "num"
            /\ left * x.den <= x.num /\ x.num <= right * x.den
            /\ arg.i = 0 => x.num = left * x.den
            /\ arg.i = arg.N - 1 => x.num = right * x.den
            /\ \A j \in (arg.i + 1)..(arg.N - 1) :
                   LET xj == XScale(j, arg.N, arg.W)
                   IN  xj.k = "num" /\ x.num * xj.den < xj.num * x.den

\* C25: at most one playback tick is pending at any time, and it is the one
\* whose id the controller holds: whatever the interleaving of play and
\* pause clicks, seeks, loads and animation-frame callbacks, no tick is
\* scheduled while an earlier one is still pending.
C25_OneTickPending ==
    /\ Cardinality(rafQueue) <= 1
    /\ rafQueue \subseteq {rafId}

\* Paused in the middle of a playback with the tick of that playback still
\* pending and a load awaiting I/O: the next play click finds an earlier
\* tick outstanding.
C25_Witness ==
    /\ Installed /\ ~playing /\ rafQueue = {rafId} /\ rafId # 0
    /\ sliderValue \in 1..(data.N - 2) /\ inflight # {}

\* C26: whenever the playing flag is true an animation-frame callback is
\* pending to advance the playback.
C26_PlayingHasTick == playing => rafQueue # {}

\* C27: the record installed is that of the load that completed last, if
\* that load completed successfully, whatever the order of the requests.
C27_LastFinishedInstalled ==
    result.ok =>
        /\ data # NoData
        /\ data.N = result.file.rows
        /\ data.tag = result.file.tag
        /\ data.pos = (IF "pos" \in result.file.cols THEN "num" ELSE "undef")

\* The complete delimited-text file was requested first and the columnar
\* file second; the second completed first and the first completed last,
\* and the record installed is of the file requested first.
C27_Witness ==
    /\ Len(arg) = 2
    /\ arg[1].kind = "file" /\ arg[1].file.tag = "A" /\ arg[1].file.rows = MaxN
    /\ arg[2].kind = "file" /\ arg[2].file.tag = "B"
    /\ arg[1].fin = 2 /\ arg[2].fin = 1
    /\ result.ok /\ result.file = arg[1].file
    /\ data.tag = "A" /\ data.N = MaxN

\* C28: a playback that is left alone eventually reaches Stopped, whatever
\* the value of the speed selector, zero and negative values included.
C28_PlaybackStops ==
    (playing /\ Installed /\ rafQueue # {}) ~> ~playing
====
